---- MODULE Spec2Model ----
(***************************************************************************)
(* Binocular Vision Lab: the App component's React state (the parameter    *)
(* record, the analysis result, the isAnalyzing flag, the error), the      *)
(* vergence effect, the controls that edit the record, the drag of the     *)
(* target object in the god view, and the AI analysis request.             *)
(*                                                                         *)
(* Units.  JavaScript numbers are modelled in fixed point:                 *)
(*   ipd, focalLength ......... millimetres                                *)
(*   targetDistance, zOffset .. tenths of a metre (0.5 m = 5, 10.0 m = 100)*)
(*   objectScale .............. tenths        (0.1 = 1, 2.0 = 20)          *)
(*   cameraSize ............... hundredths    (0.1 = 10, 1.0 = 100)        *)
(*   angles ................... hundredths of a degree (the header shows   *)
(*                              vergenceAngle.toFixed(2))                  *)
(*   camera x positions ....... micrometres   (0.032 m = 32000)            *)
(*   camera z positions ....... tenths of a metre, as targetDistance       *)
(***************************************************************************)
EXTENDS Integers, Sequences, FiniteSets, TLC

VARIABLES
    params,          \* App: const [params, setParams] = useState(DEFAULT_PARAMS)
    pendingEffects,  \* vergence effects scheduled by a render and not yet run:
                     \* each entry is what its closure captured of params
    meshZ,           \* god-view meshRef.current.position.z (set by TransformControls)
    analysis,        \* App: useState<AIAnalysisResult | null>(null)
    isAnalyzing,     \* App: useState(false)
    error,           \* App: useState<string | null>(null)
    ai,              \* geminiService: the client, TRUE iff process.env.API_KEY is set
    inflight,        \* handleAnalyze invocations suspended at their await
    calls,           \* number of ai.models.generateContent calls made so far
    presses,         \* number of clicks on the analysis trigger so far
    reports,         \* number of times an error message was put on display
    edits            \* number of parameter-editing user inputs so far

vars == <<params, pendingEffects, meshZ, analysis, isAnalyzing, error, ai,
          inflight, calls, presses, reports, edits>>

paramVars == <<params, pendingEffects, meshZ, edits>>
aiVars == <<analysis, isAnalyzing, error, ai, inflight, calls, presses, reports>>

-----------------------------------------------------------------------------
(* Bounds of the model *)

\* The user makes at most MaxInputs inputs in a session: edits of the
\* parameter record and presses of the analysis trigger.
MaxInputs == 3

-----------------------------------------------------------------------------
(* constants.ts *)

NULL == "null"

MIN_IPD == 0
MAX_IPD == 20000
MIN_DISTANCE == 5
MAX_DISTANCE == 100

DEFAULT_PARAMS ==
    [ ipd |-> 64,
      focalLength |-> 50,
      targetDistance |-> 25,
      vergenceAngle |-> 0,
      objectType |-> "torus",
      wireframe |-> FALSE,
      cameraSize |-> 15,
      objectScale |-> 5,
      isPaused |-> FALSE,
      isViewLocked |-> FALSE,
      showBoundingBox |-> FALSE,
      showBackgroundBoundingBox |-> FALSE,
      showCameraBoundingBox |-> FALSE,
      showFOV |-> TRUE,
      customModelUrl |-> NULL ]

-----------------------------------------------------------------------------
(* Math *)

Max(a, b) == IF a >= b THEN a ELSE b
Min(a, b) == IF a <= b THEN a ELSE b

\* atan on [0, 1] in hundredths of a degree, the argument given as x * 10^4:
\* atan(x) ~ x / (1 + 0.28125 x^2), within 0.3 degrees of Math.atan.
AtanUnit(X) == (5730 * X) \div (10000 + ((9 * X * X) \div 320000))

\* Math.atan(num / den) in hundredths of a degree, for num >= 0 and den > 0;
\* above 1 by atan(x) = 90 - atan(1/x).
Atan(num, den) ==
    IF num <= den
      THEN AtanUnit((num * 10000) \div den)
      ELSE 9000 - AtanUnit((den * 10000) \div num)

\* The effect with the ratio inverted, Math.atan(targetDistance / halfBaseM);
\* the division by a zero halfBaseM gives Infinity, whose atan is 90 degrees.
VergenceInverted(ipd, targetDistance) ==
    IF ipd = 0 THEN 2 * 9000 ELSE 2 * Atan(200 * targetDistance, ipd)

\* App useEffect, lines 22-24 and 28: halfBaseM = (ipd / 1000) / 2,
\* angleDeg = atan(halfBaseM / targetDistance) in degrees, the total
\* vergence is angleDeg * 2.  With targetDistance in tenths of a metre,
\* halfBaseM / targetDistance = ipd / (200 * targetDistance).
Vergence(ipd, targetDistance) == 2 * Atan(ipd, 200 * targetDistance)

-----------------------------------------------------------------------------
(* The vergence effect of App *)

\* What the effect reads of the params object its closure captured.
EffectClosure(p) == [ipd |-> p.ipd, targetDistance |-> p.targetDistance]

\* An updater that adds the computed angle to the stored one.
RecomputeAccumulating(closure, p) ==
    [p EXCEPT !.vergenceAngle = @ + Vergence(closure.ipd, closure.targetDistance)]

\* The effect storing the record its closure captured instead of updating
\* the latest one: setParams({...params, vergenceAngle}), as far as the
\* fields the closure is modelled with go.
RecomputeOverCaptured(closure, p) ==
    [p EXCEPT !.vergenceAngle = Vergence(closure.ipd, closure.targetDistance),
              !.ipd = closure.ipd,
              !.targetDistance = closure.targetDistance]

\* The updater the effect passes to setParams: p => ({...p, vergenceAngle}),
\* the angle computed from the params object the effect's closure captured.
RecomputeVergence(closure, p) ==
    [p EXCEPT !.vergenceAngle = Vergence(closure.ipd, closure.targetDistance)]

\* The dependency array [params.ipd, params.targetDistance].
EffectDeps(p) == <<p.ipd, p.targetDistance>>

\* The effect with the dependency array [params.ipd] only.
ScheduleEffectsOnIpdOnly(old, new) ==
    IF new.ipd # old.ipd
      THEN Append(pendingEffects, EffectClosure(new))
      ELSE pendingEffects

\* A render with the record `new` after one with the record `old` schedules
\* the effect when a dependency changed; the effect closes over `new`.
ScheduleEffects(old, new) ==
    IF EffectDeps(new) # EffectDeps(old)
      THEN Append(pendingEffects, EffectClosure(new))
      ELSE pendingEffects

\* setParams(updater result q): the new record is stored and rendered.
SetParams(q) ==
    /\ params' = q
    /\ pendingEffects' = ScheduleEffects(params, q)

\* JavaScript runs a promise continuation (a microtask) before any other
\* event, timer or effect: nothing else runs while one is pending.
MicrotaskPending == \E i \in 1..Len(inflight) : inflight[i].stage = "settled"

InputAllowed == edits + presses < MaxInputs

\* One scheduled effect runs.  Its own setParams renders again with the
\* dependencies unchanged, so it schedules nothing.
VergenceEffect ==
    /\ ~MicrotaskPending
    /\ pendingEffects # <<>>
    /\ params' = RecomputeVergence(Head(pendingEffects), params)
    /\ pendingEffects' = Tail(pendingEffects)
    /\ UNCHANGED <<meshZ, edits>>
    /\ UNCHANGED aiVars

-----------------------------------------------------------------------------
(* Controls.tsx: the parameter controls *)

SliderKeys == {"ipd", "targetDistance", "focalLength", "objectScale", "cameraSize"}

\* The min and max props of the five <Slider> elements.
SliderMin(key) ==
    CASE key = "ipd" -> MIN_IPD
      [] key = "targetDistance" -> MIN_DISTANCE
      [] key = "focalLength" -> 15
      [] key = "objectScale" -> 1
      [] key = "cameraSize" -> 10

SliderMax(key) ==
    CASE key = "ipd" -> MAX_IPD
      [] key = "targetDistance" -> MAX_DISTANCE
      [] key = "focalLength" -> 200
      [] key = "objectScale" -> 20
      [] key = "cameraSize" -> 100

\* Positions the thumb of <input type="range" min max> is moved to: the
\* browser only delivers values within [min, max].
RangePositions(key) ==
    {SliderMin(key), SliderMax(key)} \cup
        (CASE key = "ipd" -> {130}
           [] key = "targetDistance" -> {40}
           [] OTHER -> {})

\* Texts typed into <input type="number">: a number (possibly out of range,
\* the browser does not stop the typing) or something that is no number.
TypedTexts(key) ==
    {[numeric |-> TRUE, value |-> SliderMin(key) - 1],
     [numeric |-> TRUE, value |-> SliderMax(key) + 1],
     [numeric |-> TRUE, value |-> SliderMax(key)],
     [numeric |-> FALSE, value |-> 0]}

\* parseFloat(e.target.value): NaN for a text that is no number.
ParseFloat(text) ==
    IF text.numeric THEN [nan |-> FALSE, v |-> text.value]
                    ELSE [nan |-> TRUE, v |-> 0]

\* updateParam spreading the defaults instead of the previous record:
\* setParams({ ...DEFAULT_PARAMS, [key]: value }).
updateParamOfDefaults(p, key, value) == [DEFAULT_PARAMS EXCEPT ![key] = value]

\* updateParam: setParams(prev => ({ ...prev, [key]: value })).
updateParam(p, key, value) == [p EXCEPT ![key] = value]

\* Math.max(min, Math.min(max, val)) left out: the parsed value as it is.
ClampNone(min, max, val) == val

\* Math.max(min, Math.min(max, val)) of the numeric field.
Clamp(min, max, val) == Max(min, Min(max, val))

\* The range input of a Slider: onChange(parseFloat(e.target.value)).
SliderRange ==
    /\ ~MicrotaskPending
    /\ InputAllowed
    /\ \E key \in SliderKeys : \E v \in RangePositions(key) :
          SetParams(updateParam(params, key, v))
    /\ edits' = edits + 1
    /\ UNCHANGED meshZ
    /\ UNCHANGED aiVars

\* The onChange handler of the numeric field, lines 56-61, as the record it
\* leaves: const val = parseFloat(...); if (!isNaN(val)) onChange(clamped).
\* For NaN nothing is called and the record stays the one it was.
SliderNumberInput(p, key, text) ==
    LET val == ParseFloat(text) IN
    IF ~val.nan
      THEN updateParam(p, key, Clamp(SliderMin(key), SliderMax(key), val.v))
      ELSE p

\* The numeric field of a Slider: NaN is ignored, a number is clamped.
SliderNumber ==
    /\ ~MicrotaskPending
    /\ InputAllowed
    /\ \E key \in SliderKeys : \E text \in TypedTexts(key) :
          IF ~ParseFloat(text).nan
            THEN SetParams(SliderNumberInput(params, key, text))
            ELSE UNCHANGED <<params, pendingEffects>>
    /\ edits' = edits + 1
    /\ UNCHANGED meshZ
    /\ UNCHANGED aiVars

BuiltinObjects == {"torus", "cube", "sphere", "dna"}

\* The four object buttons: updateParam('objectType', item.id).
SelectObject ==
    /\ ~MicrotaskPending
    /\ InputAllowed
    /\ \E id \in BuiltinObjects : SetParams(updateParam(params, "objectType", id))
    /\ edits' = edits + 1
    /\ UNCHANGED meshZ
    /\ UNCHANGED aiVars

\* What the file dialog hands over: a file (named here by the object URL
\* URL.createObjectURL makes for it) or no file at all.
ChosenFiles == {"blob:1", "blob:2", NULL}

\* handleFileUpload with updates that spread the record of the last render
\* instead of the previous one: the second, setParams({ ...params,
\* objectType: 'custom' }), overwrites the URL the first one stored.
handleFileUploadLosingUrl ==
    /\ ~MicrotaskPending
    /\ InputAllowed
    /\ \E file \in ChosenFiles :
          IF file # NULL
            THEN SetParams(updateParam(params, "objectType", "custom"))
            ELSE UNCHANGED <<params, pendingEffects>>
    /\ edits' = edits + 1
    /\ UNCHANGED meshZ
    /\ UNCHANGED aiVars

\* handleFileUpload: two updateParam calls, batched by React and applied in
\* order, each to the result of the one before.
handleFileUpload ==
    /\ ~MicrotaskPending
    /\ InputAllowed
    /\ \E file \in ChosenFiles :
          IF file # NULL
            THEN SetParams(updateParam(updateParam(params, "customModelUrl", file),
                                       "objectType", "custom"))
            ELSE UNCHANGED <<params, pendingEffects>>
    /\ edits' = edits + 1
    /\ UNCHANGED meshZ
    /\ UNCHANGED aiVars

ControlToggles == {"isPaused", "wireframe", "showBoundingBox",
                   "showBackgroundBoundingBox", "showCameraBoundingBox", "showFOV"}

\* The toggle buttons of Controls: updateParam(key, !params[key]), params
\* being the record of the last render.
Toggle ==
    /\ ~MicrotaskPending
    /\ InputAllowed
    /\ \E key \in ControlToggles : SetParams(updateParam(params, key, ~params[key]))
    /\ edits' = edits + 1
    /\ UNCHANGED meshZ
    /\ UNCHANGED aiVars

-----------------------------------------------------------------------------
(* SimulationCanvas.tsx: the view lock and the drag of the target object *)

\* toggleViewLock: setParams(p => ({ ...p, isViewLocked: !p.isViewLocked })).
\* The object group moves into or out of <TransformControls>, so React
\* mounts a new group, whose position is the origin.
toggleViewLock ==
    /\ ~MicrotaskPending
    /\ InputAllowed
    /\ SetParams([params EXCEPT !.isViewLocked = ~params.isViewLocked])
    /\ meshZ' = 0
    /\ edits' = edits + 1
    /\ UNCHANGED aiVars

\* <OrbitControls enabled={!params.isViewLocked}>.
OrbitEnabled == ~params.isViewLocked

\* <TransformControls> rendered whether or not the view is locked.
DragAlwaysEnabled == TRUE

\* {isGodView && params.isViewLocked ? <TransformControls ...>}: the object
\* can be dragged (along Z only) when the god view is locked.
DragEnabled == params.isViewLocked

\* Depth offsets a drag leaves the object at, in tenths of a metre.
DragOffsets == {-80, 30}

\* The user drags the object along Z: TransformControls moves the group.
DragMove ==
    /\ ~MicrotaskPending
    /\ DragEnabled
    /\ \E z \in DragOffsets : meshZ' = z
    /\ UNCHANGED <<params, pendingEffects, edits>>
    /\ UNCHANGED aiVars

\* handleDragEnd without the Math.max(0.5, ...) floor.
NewDistanceNoFloor(targetDistance, zOffset) == targetDistance - zOffset

\* handleDragEnd, line 181: Math.max(0.5, params.targetDistance - zOffset).
NewDistance(targetDistance, zOffset) == Max(5, targetDistance - zOffset)

\* onParamChange also writing the angle for the new distance.
onParamChangeWithAngle(p, newDistance) ==
    [p EXCEPT !.targetDistance = newDistance,
              !.vergenceAngle = Vergence(p.ipd, newDistance)]

\* onParamChange: setParams(prev => ({ ...prev, ...updates })).
onParamChange(p, newDistance) == [p EXCEPT !.targetDistance = newDistance]

\* handleDragEnd (onMouseUp of TransformControls).
handleDragEnd ==
    /\ ~MicrotaskPending
    /\ DragEnabled
    /\ InputAllowed
    /\ SetParams(onParamChange(params, NewDistance(params.targetDistance, meshZ)))
    /\ meshZ' = 0
    /\ edits' = edits + 1
    /\ UNCHANGED aiVars

-----------------------------------------------------------------------------
(* SimulationCanvas.tsx: the camera rig *)

\* The half base line with a default for a falsy ipd:
\* ((params.ipd || 64) * 0.001) / 2.
halfBaseLineOrDefault(p) ==
    ((IF p.ipd = 0 THEN DEFAULT_PARAMS.ipd ELSE p.ipd) * 1000) \div 2

\* SimulationCanvas, line 527: halfBaseLine = (params.ipd * 0.001) / 2.
halfBaseLine(p) == (p.ipd * 1000) \div 2

\* SimulationCanvas, line 528: Math.atan(halfBaseLine / params.targetDistance),
\* the toe-in of one eye camera; numerator and denominator are taken in
\* units of half a millimetre.
convergenceAngle(p) == Atan(halfBaseLine(p) \div 500, 200 * p.targetDistance)

\* SimulationCanvas, line 529.
camZ(p) == p.targetDistance

\* Film height the field of view is computed for, in millimetres.
sensorHeight == 24

\* The field of view computed for the 36 mm width of the film instead of
\* its 24 mm height.
fovOfFilmWidth(p) == 2 * Atan(36, 2 * p.focalLength)

\* SimulationCanvas, lines 531-535:
\* (2 * Math.atan(24 / (2 * params.focalLength)) * 180) / Math.PI.
fov(p) == 2 * Atan(sensorHeight, 2 * p.focalLength)

\* <PerspectiveCamera> of the left view, lines 604-609.
LeftCamera(p) ==
    [x |-> -halfBaseLine(p), z |-> camZ(p), rotY |-> -convergenceAngle(p),
     fov |-> fov(p)]

\* The right camera turned the way the left one is.
RightCameraTurnedLeft(p) ==
    [x |-> halfBaseLine(p), z |-> camZ(p), rotY |-> -convergenceAngle(p),
     fov |-> fov(p)]

\* <PerspectiveCamera> of the right view, lines 636-641.
RightCamera(p) ==
    [x |-> halfBaseLine(p), z |-> camZ(p), rotY |-> convergenceAngle(p),
     fov |-> fov(p)]

\* CameraVisualizer, lines 413-427 and 483-496: the two camera models of the
\* god view, from its own halfBaseLine, camZ, convergenceAngle and fov; the
\* fov drives the frustum drawn at each model.
CameraVisualizer(p) ==
    LET visHalfBaseLine == (p.ipd * 1000) \div 2
        visCamZ == p.targetDistance
        visConvergenceAngle == Atan(visHalfBaseLine \div 500, 200 * p.targetDistance)
        visFov == 2 * Atan(sensorHeight, 2 * p.focalLength)
    IN [left |-> [x |-> -visHalfBaseLine, z |-> visCamZ,
                  rotY |-> -visConvergenceAngle, fov |-> visFov],
        right |-> [x |-> visHalfBaseLine, z |-> visCamZ,
                   rotY |-> visConvergenceAngle, fov |-> visFov]]

\* Number.prototype.toFixed(2) of a non-negative angle: the decimal text,
\* as its whole degrees and its two decimals.
ToFixed2(angle) == [whole |-> angle \div 100, decimals |-> angle % 100]

\* App header, line 65: params.vergenceAngle.toFixed(2).
HeaderVergence(p) == ToFixed2(p.vergenceAngle)

-----------------------------------------------------------------------------
(* geminiService: analyzeSimulation, and App.handleAnalyze *)

RequiredFields == {"title", "explanation", "depthImplications", "technicalNote"}

\* analysis = null
NoAnalysis == [present |-> FALSE, fields |-> {}, content |-> 0]

\* What the endpoint can answer to one generateContent call:
\*   rejected ... the promise rejects (network error, non-2xx), the Error
\*                carrying a message or an empty one
\*   empty ...... response.text is empty or undefined
\*   unparsable . response.text is not JSON
\*   json ....... response.text is JSON holding the given fields, with the
\*                given content
\* each either promptly or slowly.
FieldSets == {RequiredFields, RequiredFields \ {"technicalNote"}}

Responses ==
    { [kind |-> k, message |-> m, fields |-> {}, content |-> 0, slow |-> sl] :
        k \in {"rejected"}, m \in {"RequestFailed", ""}, sl \in BOOLEAN }
    \cup
    { [kind |-> k, message |-> "", fields |-> {}, content |-> 0, slow |-> sl] :
        k \in {"empty", "unparsable"}, sl \in BOOLEAN }
    \cup
    { [kind |-> "json", message |-> "", fields |-> f, content |-> c, slow |-> sl] :
        f \in FieldSets, c \in 1..2, sl \in BOOLEAN }

\* The outcome of analyzeSimulation, a returned value or a thrown Error.
Returned(value) == [ok |-> TRUE, message |-> "", value |-> value]
Thrown(message) == [ok |-> FALSE, message |-> message, value |-> NoAnalysis]

\* analyzeSimulation, lines 372-374: if (!ai) throw new Error(...).
MissingKey == Thrown("MissingApiKey")

\* analyzeSimulation, lines 391-419, once the endpoint has answered:
\* a rejection is rethrown, an empty text throws "Gemini 没有响应",
\* JSON.parse throws a SyntaxError or its value is returned as it is.
analyzeSimulation(resp) ==
    CASE resp.kind = "rejected" -> Thrown(resp.message)
      [] resp.kind = "empty" -> Thrown("NoResponse")
      [] resp.kind = "unparsable" -> Thrown("SyntaxError")
      [] resp.kind = "json" ->
           Returned([present |-> TRUE, fields |-> resp.fields,
                     content |-> resp.content])

\* A prompt made from the default record instead of the record passed in.
PromptScalarsOfDefaults(p) ==
    [ipd |-> DEFAULT_PARAMS.ipd, focalLength |-> DEFAULT_PARAMS.focalLength,
     targetDistance |-> DEFAULT_PARAMS.targetDistance]

\* The three scalars analyzeSimulation puts into the prompt.
PromptScalars(p) ==
    [ipd |-> p.ipd, focalLength |-> p.focalLength, targetDistance |-> p.targetDistance]

\* The trigger button without its disabled attribute.
TriggerNeverDisabled == TRUE

\* <button onClick={onAnalyze} disabled={isAnalyzing}>.
TriggerEnabled == ~isAnalyzing

\* analyzeSimulation going on to the request whether or not there is a client.
ClientAssumed == TRUE

\* analyzeSimulation, line 372: if (!ai) throw ...; the request is made
\* only with a client.
ClientReady == ai

\* The error panel with its dismiss button is rendered when error is set.
ErrorShown == error # NULL

\* handleAnalyze up to its await: setIsAnalyzing(true), setError(null),
\* analyzeSimulation(params) is called with the record of the last render.
\* Without a client the call throws before any request is made, and the
\* catch block runs as the next microtask.
handleAnalyze ==
    /\ ~MicrotaskPending
    /\ TriggerEnabled
    /\ InputAllowed
    /\ presses' = presses + 1
    /\ isAnalyzing' = TRUE
    /\ error' = NULL
    /\ IF ClientReady
         THEN /\ calls' = calls + 1
              /\ inflight' = Append(inflight,
                     [stage |-> "awaiting", sent |-> PromptScalars(params),
                      slow |-> FALSE, result |-> Thrown("")])
         ELSE /\ calls' = calls
              /\ inflight' = Append(inflight,
                     [stage |-> "settled", sent |-> PromptScalars(params),
                      slow |-> FALSE, result |-> MissingKey])
    /\ UNCHANGED <<analysis, ai, reports>>
    /\ UNCHANGED paramVars

\* The endpoint answers a request: the awaited promise settles.
Respond ==
    /\ ~MicrotaskPending
    /\ \E i \in 1..Len(inflight) : \E resp \in Responses :
          /\ inflight[i].stage = "awaiting"
          /\ inflight' = [inflight EXCEPT ![i] =
                 [stage |-> "settled", sent |-> @.sent, slow |-> resp.slow,
                  result |-> analyzeSimulation(resp)]]
    /\ UNCHANGED <<analysis, isAnalyzing, error, ai, calls, presses, reports>>
    /\ UNCHANGED paramVars

\* catch (e): e.message || "分析失败", without the fallback.
ErrorMessageNoFallback(message) == IF message # "" THEN message ELSE NULL

\* catch (e): e.message || "分析失败".
ErrorMessage(message) == IF message # "" THEN message ELSE "AnalysisFailed"

Remove(seq, i) == SubSeq(seq, 1, i - 1) \o SubSeq(seq, i + 1, Len(seq))

\* Settle with setIsAnalyzing(false) at the end of the try block instead of
\* in a finally block.
SettleWithoutFinally(i) ==
    LET r == inflight[i].result IN
    /\ IF r.ok
         THEN /\ analysis' = r.value
              /\ isAnalyzing' = FALSE
              /\ UNCHANGED <<error, reports>>
         ELSE /\ error' = ErrorMessage(r.message)
              /\ reports' = reports + 1
              /\ UNCHANGED <<analysis, isAnalyzing>>
    /\ inflight' = Remove(inflight, i)
    /\ calls' = calls

\* Settle with a catch block that calls the endpoint again.
SettleWithRetry(i) ==
    LET r == inflight[i].result IN
    IF r.ok
      THEN /\ analysis' = r.value
           /\ isAnalyzing' = FALSE
           /\ inflight' = Remove(inflight, i)
           /\ UNCHANGED <<error, reports, calls>>
      ELSE /\ calls' = calls + 1
           /\ inflight' = [inflight EXCEPT ![i].stage = "awaiting"]
           /\ UNCHANGED <<analysis, isAnalyzing, error, reports>>

\* Settle with a catch block that also drops the stored result:
\* setAnalysis(null) next to setError.
SettleClearingResult(i) ==
    LET r == inflight[i].result IN
    /\ IF r.ok
         THEN /\ analysis' = r.value
              /\ UNCHANGED <<error, reports>>
         ELSE /\ error' = ErrorMessage(r.message)
              /\ reports' = reports + 1
              /\ analysis' = NoAnalysis
    /\ isAnalyzing' = FALSE
    /\ inflight' = Remove(inflight, i)
    /\ calls' = calls

\* handleAnalyze after its await, for the invocation i whose promise has
\* settled: setAnalysis(result), or the catch block's setError; then
\* finally setIsAnalyzing(false).  No further call is made.
Settle(i) ==
    LET r == inflight[i].result IN
    /\ IF r.ok
         THEN /\ analysis' = r.value
              /\ UNCHANGED <<error, reports>>
         ELSE /\ error' = ErrorMessage(r.message)
              /\ reports' = reports + 1
              /\ UNCHANGED analysis
    /\ isAnalyzing' = FALSE
    /\ inflight' = Remove(inflight, i)
    /\ calls' = calls

\* The continuation also storing the scalars of the record it captured at
\* the press: setParams(params) after the await, with the stale params.
handleAnalyzeResumeStaleParams ==
    /\ \E i \in 1..Len(inflight) :
          /\ inflight[i].stage = "settled"
          /\ Settle(i)
          /\ SetParams([params EXCEPT
                 !.ipd = inflight[i].sent.ipd,
                 !.focalLength = inflight[i].sent.focalLength,
                 !.targetDistance = inflight[i].sent.targetDistance])
    /\ UNCHANGED <<ai, presses, meshZ, edits>>

\* The continuation of handleAnalyze runs as a microtask.
handleAnalyzeResume ==
    /\ \E i \in 1..Len(inflight) :
          /\ inflight[i].stage = "settled"
          /\ Settle(i)
    /\ UNCHANGED <<ai, presses>>
    /\ UNCHANGED paramVars

\* The dismiss button also clearing the stored result.
DismissErrorClearsAnalysis ==
    /\ ~MicrotaskPending
    /\ error # NULL
    /\ error' = NULL
    /\ analysis' = [present |-> FALSE, fields |-> {}, content |-> 0]
    /\ UNCHANGED <<isAnalyzing, ai, inflight, calls, presses, reports>>
    /\ UNCHANGED paramVars

\* The dismiss button of the error panel: onClick={() => setError(null)}.
DismissError ==
    /\ ~MicrotaskPending
    /\ ErrorShown
    /\ error' = NULL
    /\ UNCHANGED <<analysis, isAnalyzing, ai, inflight, calls, presses, reports>>
    /\ UNCHANGED paramVars

\* The right panel of App, lines 103-116, and AIPanel, lines 10-29: the
\* error with its dismiss button when error is set, else AIPanel, which
\* shows the loading text, the empty text or the stored result.
RightPanel ==
    IF error # NULL
      THEN [shows |-> "error", message |-> error, result |-> NoAnalysis]
      ELSE IF isAnalyzing
        THEN [shows |-> "loading", message |-> NULL, result |-> NoAnalysis]
        ELSE IF ~analysis.present
          THEN [shows |-> "empty", message |-> NULL, result |-> NoAnalysis]
          ELSE [shows |-> "result", message |-> NULL, result |-> analysis]

-----------------------------------------------------------------------------
(* The session *)

\* App mounts with the defaults; the first render schedules the effect.
\* The API key is or is not configured, for the whole session.
Init ==
    /\ params = DEFAULT_PARAMS
    /\ pendingEffects = <<EffectClosure(DEFAULT_PARAMS)>>
    /\ meshZ = 0
    /\ analysis = NoAnalysis
    /\ isAnalyzing = FALSE
    /\ error = NULL
    /\ ai \in BOOLEAN
    /\ inflight = <<>>
    /\ calls = 0
    /\ presses = 0
    /\ reports = 0
    /\ edits = 0

Next ==
    \/ VergenceEffect
    \/ SliderRange
    \/ SliderNumber
    \/ SelectObject
    \/ handleFileUpload
    \/ Toggle
    \/ toggleViewLock
    \/ DragMove
    \/ handleDragEnd
    \/ handleAnalyze
    \/ Respond
    \/ handleAnalyzeResume
    \/ DismissError

Spec == Init /\ [][Next]_vars

\* The event loop always gets to run a pending promise continuation and a
\* scheduled effect.  Nothing is assumed of the user or of the endpoint.
LiveSpec ==
    /\ Spec
    /\ WF_vars(handleAnalyzeResume)
    /\ WF_vars(VergenceEffect)

-----------------------------------------------------------------------------
(* The geometry over the range of the controls *)

\* Numbers typed into the numeric fields of the ipd, targetDistance and
\* focalLength sliders, some of them outside the range of the control.
IpdTexts == {-1, 0, 1, 32, 64, 65, 130, 1000, 10000, 20000, 20001}
DistanceTexts == {4, 5, 6, 10, 25, 40, 50, 99, 100, 101}
FocalTexts == {14, 15, 16, 24, 35, 50, 85, 100, 199, 200, 201}

Typed(v) == [numeric |-> TRUE, value |-> v]

\* The values these texts are stored as.
IpdValues == {Clamp(SliderMin("ipd"), SliderMax("ipd"), v) : v \in IpdTexts}
DistanceValues ==
    {Clamp(SliderMin("targetDistance"), SliderMax("targetDistance"), v) :
        v \in DistanceTexts}
FocalValues ==
    {Clamp(SliderMin("focalLength"), SliderMax("focalLength"), v) :
        v \in FocalTexts}

\* The effects pending after a render with the record `new` follows one
\* with the record `old`, `queue` being those pending before.
ScheduledAfter(queue, old, new) ==
    IF EffectDeps(new) # EffectDeps(old)
      THEN Append(queue, EffectClosure(new))
      ELSE queue

\* App has mounted and the user has typed an ipd, a targetDistance and a
\* focalLength into the numeric fields, each render scheduling the effect
\* where a dependency changed; no effect has run yet.
GeomInit ==
    /\ \E i \in IpdTexts : \E d \in DistanceTexts : \E f \in FocalTexts :
          LET p1 == SliderNumberInput(DEFAULT_PARAMS, "ipd", Typed(i))
              p2 == SliderNumberInput(p1, "targetDistance", Typed(d))
              p3 == SliderNumberInput(p2, "focalLength", Typed(f))
              q0 == <<EffectClosure(DEFAULT_PARAMS)>>
              q1 == ScheduledAfter(q0, DEFAULT_PARAMS, p1)
              q2 == ScheduledAfter(q1, p1, p2)
          IN /\ params = p3
             /\ pendingEffects = ScheduledAfter(q2, p2, p3)
    /\ meshZ = 0
    /\ analysis = NoAnalysis
    /\ isAnalyzing = FALSE
    /\ error = NULL
    /\ ai \in BOOLEAN
    /\ inflight = <<>>
    /\ calls = 0
    /\ presses = 0
    /\ reports = 0
    /\ edits = 3

\* The scheduled effects run, one after the other.
GeomNext == VergenceEffect

GeomSpec == GeomInit /\ [][GeomNext]_vars

-----------------------------------------------------------------------------
(* Properties *)

\* A request's failure has arrived and its catch block has not run yet.
FailureArrived ==
    \E i \in 1..Len(inflight) :
        inflight[i].stage = "settled" /\ ~inflight[i].result.ok

\* A slow answer has arrived and the continuation has not run yet.
SlowArrived ==
    \E i \in 1..Len(inflight) :
        inflight[i].stage = "settled" /\ inflight[i].slow

\* C1: in every reachable state the stored vergenceAngle equals the vergence
\* function of the stored ipd and targetDistance.
C1_VergenceAlwaysDerived ==
    params.vergenceAngle = Vergence(params.ipd, params.targetDistance)

\* C2: at most one analysis request is in flight at any time, and
\* isAnalyzing is true exactly while a request is outstanding.
C2_SingleInFlight ==
    /\ Len(inflight) <= 1
    /\ isAnalyzing <=> (inflight # <<>>)

\* C2 witness: a second request is in flight after the first one completed.
C2_Witness ==
    /\ presses = 2
    /\ isAnalyzing
    /\ Len(inflight) = 1
    /\ inflight[1].stage = "awaiting"

\* C3: a failing request leaves the parameter record as it was, both when
\* the failure arrives and when it is handled, and isAnalyzing is false once
\* it has been handled.
C3_FailureLeavesParams ==
    [][ /\ (FailureArrived' /\ ~FailureArrived) => params' = params
        /\ FailureArrived => (params' = params /\ ~isAnalyzing') ]_vars

\* C3 witness: a failure of the endpoint has been handled in a session whose
\* parameters were edited.
C3_Witness ==
    /\ calls = 1
    /\ reports = 1
    /\ error # NULL
    /\ ~isAnalyzing
    /\ params.ipd # DEFAULT_PARAMS.ipd

\* C4 as stated: every request whose response fails or is slow leads to a
\* displayed error and a re-enabled trigger.
C4_FailedOrSlowShowsError ==
    (FailureArrived \/ SlowArrived) ~> (error # NULL /\ ~isAnalyzing)

\* C4 amended: every request whose response fails leads to a displayed error
\* and a re-enabled trigger (slowness alone, with no timeout, leads to none).
C4_FailureShowsError ==
    FailureArrived ~> (error # NULL /\ ~isAnalyzing)

\* C4 witness: the error of a failed endpoint call is on display and the
\* trigger is enabled.
C4_Witness ==
    /\ error \in {"RequestFailed", "AnalysisFailed", "NoResponse", "SyntaxError"}
    /\ ~isAnalyzing
    /\ inflight = <<>>

\* C5: in every reachable state targetDistance lies within MIN_DISTANCE and
\* MAX_DISTANCE.
C5_DistanceWithinBounds ==
    /\ MIN_DISTANCE <= params.targetDistance
    /\ params.targetDistance <= MAX_DISTANCE

\* C6: the only step that changes vergenceAngle is the recomputation by the
\* effect, from the ipd and targetDistance it captured.
C6_OnlyEffectWritesVergence ==
    [][ params'.vergenceAngle # params.vergenceAngle =>
          /\ pendingEffects # <<>>
          /\ pendingEffects' = Tail(pendingEffects)
          /\ params' = RecomputeVergence(Head(pendingEffects), params) ]_vars

\* C6 witness: after a drag changed the distance, the effect has written the
\* angle for it.
C6_Witness ==
    /\ params.targetDistance \notin {25, 5, 40, 100}
    /\ pendingEffects = <<>>
    /\ params.vergenceAngle = Vergence(params.ipd, params.targetDistance)
    /\ params.vergenceAngle # 0

\* C7: a failed request is never retried: the endpoint is called at most once
\* per press of the trigger, and only in the step of a press.
C7_NoAutomaticRetry ==
    /\ [](calls <= presses)
    /\ [][ calls' # calls =>
             (presses' = presses + 1 /\ calls' = calls + 1) ]_vars

\* C7 witness: after a failure was reported, the user pressed the trigger
\* again and that made the second call.
C7_Witness ==
    /\ reports >= 1
    /\ presses = 2
    /\ calls = 2

\* C8: while an error is displayed the trigger is enabled; dismissing sets
\* error to null and changes nothing else; a press clears the error.
C8_DismissAndRetry ==
    /\ [](ErrorShown => TriggerEnabled)
    /\ [][ /\ (error # NULL /\ error' = NULL /\ presses' = presses) =>
                UNCHANGED <<params, pendingEffects, meshZ, analysis, isAnalyzing,
                            ai, inflight, calls, presses, reports, edits>>
           /\ (presses' # presses) => error' = NULL ]_vars

\* C8 witness: the error of a failed request was dismissed and no new
\* request has been started.
C8_Witness ==
    /\ presses = 1
    /\ reports = 1
    /\ error = NULL
    /\ TriggerEnabled

\* C9 as stated: with the credential missing the condition is reported once,
\* the trigger is not disabled by it, and an attempt fails with an error
\* without the endpoint being called.
C9_MissingKeyReportedOnce ==
    ~ai =>
        /\ reports <= 1
        /\ calls = 0
        /\ (inflight = <<>>) => TriggerEnabled
        /\ error \in {NULL, "MissingApiKey"}

\* C9 amended: with the credential missing the condition is reported at
\* every request attempt, once per attempt; the trigger is not disabled by
\* it, and every attempt fails with that error without the endpoint being
\* called.
C9_MissingKeyReportedPerAttempt ==
    ~ai =>
        /\ reports = presses - Len(inflight)
        /\ calls = 0
        /\ (inflight = <<>>) => TriggerEnabled
        /\ error \in {NULL, "MissingApiKey"}
        /\ analysis = NoAnalysis

\* C9 witness: without a credential, a second attempt has failed like the
\* first.
C9_Witness ==
    /\ ~ai
    /\ presses = 2
    /\ reports = 2
    /\ error = "MissingApiKey"
    /\ TriggerEnabled

\* C10: a response is stored as the analysis result only when it holds the
\* four required fields.
C10_RequiredFieldsValidated ==
    analysis.present => analysis.fields = RequiredFields

\* C11: every value entered through a numeric control is within the
\* control's [min, max] when it is stored: a typed number is clamped, the
\* range thumb only delivers values in range; a text that is no number
\* leaves the parameter record as it was; and no such input touches the
\* error state.
C11_NumericInputClamped ==
    /\ [](\A key \in SliderKeys :
            /\ \A text \in TypedTexts(key) :
                  LET q == SliderNumberInput(params, key, text) IN
                  IF text.numeric
                    THEN /\ SliderMin(key) <= q[key]
                         /\ q[key] <= SliderMax(key)
                         /\ q = [params EXCEPT ![key] = q[key]]
                    ELSE q = params
            /\ \A v \in RangePositions(key) :
                  LET q == updateParam(params, key, v) IN
                  SliderMin(key) <= q[key] /\ q[key] <= SliderMax(key))
    /\ [][ (edits' = edits + 1 /\ meshZ' = meshZ) =>
             /\ error' = error
             /\ \A key \in SliderKeys :
                   params'[key] # params[key] =>
                       /\ SliderMin(key) <= params'[key]
                       /\ params'[key] <= SliderMax(key) ]_vars

\* C11 witness: values typed below the minimum of one control and above the
\* maximum of another are stored as that minimum and that maximum.
C11_Witness ==
    /\ edits = 2
    /\ params.objectScale = SliderMin("objectScale")
    /\ params.cameraSize = SliderMax("cameraSize")
    /\ error = NULL

\* C12: the geometry is only evaluated inside its domain: in every reachable
\* state, and in every record a scheduled effect captured, targetDistance is
\* strictly positive (at least 0.5 m), focalLength is within 15..200 and
\* ipd within 0..20000, so neither division has a zero divisor.
C12_GeometryDomain ==
    /\ params.targetDistance >= 5
    /\ params.targetDistance > 0
    /\ params.focalLength >= 15 /\ params.focalLength <= 200
    /\ 2 * params.focalLength # 0
    /\ params.ipd >= 0 /\ params.ipd <= 20000
    /\ \A i \in 1..Len(pendingEffects) :
          /\ pendingEffects[i].targetDistance >= 5
          /\ pendingEffects[i].ipd >= 0 /\ pendingEffects[i].ipd <= 20000

\* C12 witness: the object was dragged towards the cameras by more than the
\* distance left, and the distance stored is the 0.5 m floor.
C12_Witness ==
    /\ params.isViewLocked
    /\ edits = 2
    /\ meshZ = 0
    /\ params.targetDistance = 5
    /\ pendingEffects = <<>>
    /\ params.vergenceAngle = Vergence(params.ipd, 5)

\* C13: the request made at a press carries exactly ipd, focalLength and
\* targetDistance of the parameter record as it is at the press, and no
\* later step (an edit, the effect, the response) alters what a request
\* already made carries.
C13_RequestCarriesPressRecord ==
    [][ /\ presses' = presses + 1 =>
              /\ Len(inflight') = Len(inflight) + 1
              /\ inflight'[Len(inflight')].sent =
                     [ipd |-> params.ipd, focalLength |-> params.focalLength,
                      targetDistance |-> params.targetDistance]
        /\ \A i \in 1..Len(inflight) :
              i <= Len(inflight') => inflight'[i].sent = inflight[i].sent ]_vars

\* C13 witness: a request was made for an edited record, the record was
\* edited again while the request is in flight, and the request still
\* carries the values of the press.
C13_Witness ==
    /\ Len(inflight) = 1
    /\ inflight[1].stage = "awaiting"
    /\ inflight[1].sent.ipd = 130
    /\ params.ipd = MAX_IPD
    /\ inflight[1].sent.targetDistance = params.targetDistance

\* C14: the convergence half-angle, as the cameras' toe-in and as half the
\* displayed vergence, does not decrease when ipd grows at the same
\* targetDistance and does not increase when targetDistance grows at the
\* same ipd; it changes strictly between values a factor of two apart (for
\* an ipd of at least 64 mm); and the angle the effect stores is that
\* function of the stored ipd and targetDistance.
C14_ConvergenceMonotone ==
    LET ipd == params.ipd
        d == params.targetDistance
        toeIn(i, dd) ==
            convergenceAngle([params EXCEPT !.ipd = i, !.targetDistance = dd])
    IN
    /\ \A i2 \in IpdValues :
          /\ i2 >= ipd =>
                /\ toeIn(i2, d) >= toeIn(ipd, d)
                /\ Vergence(i2, d) >= Vergence(ipd, d)
          /\ (i2 >= 2 * ipd /\ i2 >= 64) =>
                /\ toeIn(i2, d) > toeIn(ipd, d)
                /\ Vergence(i2, d) > Vergence(ipd, d)
    /\ \A d2 \in DistanceValues :
          /\ d2 >= d =>
                /\ toeIn(ipd, d2) <= toeIn(ipd, d)
                /\ Vergence(ipd, d2) <= Vergence(ipd, d)
          /\ (d2 >= 2 * d /\ ipd >= 64) =>
                /\ toeIn(ipd, d2) < toeIn(ipd, d)
                /\ Vergence(ipd, d2) < Vergence(ipd, d)
    /\ pendingEffects = <<>> => params.vergenceAngle = Vergence(ipd, d)

\* C14 witness: the effect has stored the angle of an ipd of 1000 mm at 5 m,
\* above that of 64 mm at 5 m and below that of 1000 mm at 2.5 m.
C14_Witness ==
    /\ pendingEffects = <<>>
    /\ params.ipd = 1000
    /\ params.targetDistance = 50
    /\ params.vergenceAngle > Vergence(64, 50)
    /\ params.vergenceAngle < Vergence(1000, 25)
    /\ params.vergenceAngle = 2 * convergenceAngle(params)

\* C15: the recomputation is idempotent: applied twice to a record, with
\* the same captured ipd and targetDistance, it gives the record it gives
\* applied once, it leaves ipd and targetDistance as they are, and once all
\* scheduled effects have run applying it again changes nothing.
C15_RecomputeIdempotent ==
    /\ \A closure \in {EffectClosure(params)} \cup
                       {pendingEffects[i] : i \in 1..Len(pendingEffects)} :
          LET once == RecomputeVergence(closure, params)
              twice == RecomputeVergence(closure, once)
          IN /\ twice = once
             /\ EffectDeps(once) = EffectDeps(params)
    /\ pendingEffects = <<>> =>
          RecomputeVergence(EffectClosure(params), params) = params

\* C15 witness: the effect has run for an ipd of 130 mm at 1.0 m and stored
\* a non-zero angle, which a second run would store again.
C15_Witness ==
    /\ pendingEffects = <<>>
    /\ params.ipd = 130
    /\ params.targetDistance = 10
    /\ params.vergenceAngle > 0
    /\ RecomputeVergence(EffectClosure(params), params).vergenceAngle =
           params.vergenceAngle

\* C16: with ipd = 0 the convergence angle is 0 at every targetDistance:
\* the recomputed vergenceAngle is 0, both eye cameras have zero toe-in and
\* both stand at the same place, x = 0 and z = targetDistance.
C16_ZeroIpdCyclops ==
    params.ipd = 0 =>
        /\ convergenceAngle(params) = 0
        /\ LeftCamera(params).rotY = 0
        /\ RightCamera(params).rotY = 0
        /\ LeftCamera(params).x = 0
        /\ RightCamera(params).x = 0
        /\ LeftCamera(params).z = params.targetDistance
        /\ RightCamera(params).z = params.targetDistance
        /\ RecomputeVergence(EffectClosure(params), params).vergenceAngle = 0
        /\ pendingEffects = <<>> => params.vergenceAngle = 0

\* C16 witness: ipd is 0 at 10 m and the effect has stored the angle 0.
C16_Witness ==
    /\ params.ipd = 0
    /\ params.targetDistance = 100
    /\ pendingEffects = <<>>
    /\ params.vergenceAngle = 0
    /\ LeftCamera(params) = RightCamera(params)

\* C17: the eye cameras are symmetric about the centre line: the left one
\* at x = -(ipd / 1000) / 2 and the right one at x = +(ipd / 1000) / 2 (for
\* an ipd of 64 mm, -0.032 m and +0.032 m), both at z = targetDistance,
\* their toe-in rotations exact negatives of each other; and the camera
\* models of the god view have the same positions and rotations.
C17_CamerasSymmetric ==
    LET L == LeftCamera(params)
        R == RightCamera(params)
        V == CameraVisualizer(params)
    IN
    /\ 2 * L.x = -(params.ipd * 1000)
    /\ 2 * R.x = params.ipd * 1000
    /\ params.ipd = 64 => (L.x = -32000 /\ R.x = 32000)
    /\ L.z = params.targetDistance
    /\ R.z = params.targetDistance
    /\ L.rotY = -R.rotY
    /\ R.rotY >= 0
    /\ V.left.x = L.x /\ V.left.z = L.z /\ V.left.rotY = L.rotY
    /\ V.right.x = R.x /\ V.right.z = R.z /\ V.right.rotY = R.rotY

\* C17 witness: the rig for an ipd of 64 mm at 2.5 m, the cameras 0.032 m
\* to either side and turned towards each other.
C17_Witness ==
    /\ params.ipd = 64
    /\ params.targetDistance = 25
    /\ pendingEffects = <<>>
    /\ LeftCamera(params).x = -32000
    /\ RightCamera(params).x = 32000
    /\ RightCamera(params).rotY > 0
    /\ LeftCamera(params).rotY < 0

\* C18: the field of view is 2 * atan(24 / (2 * focalLength)) in degrees, a
\* function of focalLength alone: the left camera, the right camera and the
\* frustums of the god view all have that value, it is strictly smaller for
\* a longer focalLength (about 27 degrees at 50 mm), and it is the same
\* whatever ipd, targetDistance, vergenceAngle and the toggles are.
C18_FovOfFocalLength ==
    LET f == 2 * Atan(24, 2 * params.focalLength)
        fovAt == [fl \in FocalValues |-> fov([params EXCEPT !.focalLength = fl])]
    IN
    /\ fov(params) = f
    /\ LeftCamera(params).fov = f
    /\ RightCamera(params).fov = f
    /\ CameraVisualizer(params).left.fov = f
    /\ CameraVisualizer(params).right.fov = f
    /\ params.focalLength = 50 => (f >= 2670 /\ f <= 2730)
    /\ \A f1, f2 \in FocalValues : f1 < f2 => fovAt[f2] < fovAt[f1]
    /\ \A i \in IpdValues : \A d \in DistanceValues :
          fov([params EXCEPT !.ipd = i, !.targetDistance = d]) = f
    /\ \A key \in ControlToggles \cup {"isViewLocked"} :
          fov([params EXCEPT ![key] = ~@]) = f
    /\ fov([params EXCEPT !.vergenceAngle = 0]) = f

\* C18 witness: the rig for a focalLength of 200 mm, an ipd of 1000 mm and
\* a targetDistance of 5 m, its field of view narrower than that of the
\* default 50 mm.
C18_Witness ==
    /\ params.focalLength = 200
    /\ params.ipd = 1000
    /\ params.targetDistance = 50
    /\ pendingEffects = <<>>
    /\ fov(params) < fov(DEFAULT_PARAMS)
    /\ LeftCamera(params).fov = CameraVisualizer(params).right.fov

\* C19: every step that changes ipd or targetDistance, by whichever path,
\* schedules the recomputation for the new values; a recomputation changes
\* neither and schedules nothing; whenever recomputations are pending they
\* all get run, and when none is pending vergenceAngle is the vergence of
\* the stored ipd and targetDistance.
C19_RecomputeSettles ==
    /\ [][ /\ EffectDeps(params') # EffectDeps(params) =>
                pendingEffects' =
                    Append(pendingEffects,
                           [ipd |-> params'.ipd,
                            targetDistance |-> params'.targetDistance])
           /\ Len(pendingEffects') < Len(pendingEffects) =>
                /\ pendingEffects' = Tail(pendingEffects)
                /\ EffectDeps(params') = EffectDeps(params) ]_vars
    /\ [](pendingEffects = <<>> =>
            params.vergenceAngle = Vergence(params.ipd, params.targetDistance))
    /\ (pendingEffects # <<>>) ~> (pendingEffects = <<>>)

\* C19 witness: after a drag changed targetDistance and the slider changed
\* ipd, all recomputations have run and the angle is that of the new values.
C19_Witness ==
    /\ params.targetDistance = 105
    /\ params.ipd = 130
    /\ edits = 3
    /\ pendingEffects = <<>>
    /\ params.vergenceAngle = Vergence(130, 105)
    /\ params.vergenceAngle # Vergence(64, 25)

\* C20: in every rendered state the vergence angle shown in the header is
\* twice the toe-in the eye cameras have in that state.
C20_HeaderMatchesToeIn ==
    /\ HeaderVergence(params) = ToFixed2(2 * convergenceAngle(params))
    /\ HeaderVergence(params) =
           ToFixed2(RightCamera(params).rotY - LeftCamera(params).rotY)

\* C21: the display toggles are independent: a step that changes one of the
\* seven booleans flips exactly that one and leaves every other field of
\* the parameter record as it was, and flipping the same toggle twice gives
\* the record back.
C21_TogglesIndependent ==
    /\ [][ \A key \in ControlToggles \cup {"isViewLocked"} :
               params'[key] # params[key] =>
                   params' = [params EXCEPT ![key] = ~params[key]] ]_vars
    /\ [](\A key \in ControlToggles :
            LET once == updateParam(params, key, ~params[key])
                twice == updateParam(once, key, ~once[key])
            IN /\ once[key] # params[key]
               /\ once = [params EXCEPT ![key] = ~params[key]]
               /\ twice = params)

\* C21 witness: three different toggles were flipped, one of them the view
\* lock, and every other field still has its default.
C21_Witness ==
    /\ edits = 3
    /\ params = [DEFAULT_PARAMS EXCEPT !.wireframe = TRUE,
                                       !.showFOV = FALSE,
                                       !.isViewLocked = TRUE,
                                       !.vergenceAngle = params.vergenceAngle]

\* C22: the object is dragged only while isViewLocked is true, and the
\* orbit controls are enabled exactly when it is false; moving the object
\* changes no field of the parameter record; on release with depth offset
\* z, targetDistance becomes max(0.5, targetDistance - z), the offset is
\* back at zero and no other field of the record is changed.
C22_DragFrame ==
    /\ [](OrbitEnabled <=> ~params.isViewLocked)
    /\ [](DragEnabled <=> ~OrbitEnabled)
    /\ [](meshZ # 0 => params.isViewLocked)
    /\ [][ /\ (meshZ' # meshZ /\ meshZ' # 0) =>
                (params.isViewLocked /\ params' = params)
           /\ (meshZ # 0 /\ meshZ' = 0 /\
                   params'.isViewLocked = params.isViewLocked) =>
                params' =
                    [params EXCEPT !.targetDistance =
                        IF params.targetDistance - meshZ >= 5
                          THEN params.targetDistance - meshZ
                          ELSE 5] ]_vars

\* C22 witness: in the locked god view the object was dragged 8 m away from
\* the cameras and released: the distance is the old one plus 8 m, the
\* offset is zero and the rest of the record is as it was.
C22_Witness ==
    /\ edits = 2
    /\ meshZ = 0
    /\ params = [DEFAULT_PARAMS EXCEPT !.isViewLocked = TRUE,
                                       !.targetDistance = 105,
                                       !.vergenceAngle = params.vergenceAngle]

\* C23: a recomputation step changes the vergenceAngle field only: it
\* updates the record as it is when the step runs, so every other field,
\* whatever was written to it since the step was scheduled, keeps its value.
C23_EffectWritesAngleOnly ==
    [][ Len(pendingEffects') < Len(pendingEffects) =>
          /\ params' = [params EXCEPT !.vergenceAngle = params'.vergenceAngle]
          /\ params'.vergenceAngle =
                 Vergence(pendingEffects[1].ipd, pendingEffects[1].targetDistance)
          /\ UNCHANGED <<meshZ, analysis, isAnalyzing, error, inflight>> ]_vars

\* C23 witness: ipd and a toggle were changed while the effect of the mount
\* was pending; that effect has run, the angle is the one of the defaults it
\* captured, ipd and the toggle keep their new values and the effect for
\* the new ipd is still to run.
C23_Witness ==
    /\ params.ipd = 130
    /\ params.wireframe
    /\ params.vergenceAngle = Vergence(DEFAULT_PARAMS.ipd, DEFAULT_PARAMS.targetDistance)
    /\ params.vergenceAngle # 0
    /\ pendingEffects = <<[ipd |-> 130, targetDistance |-> 25]>>

\* C24: while a request is in flight every parameter control is usable; the
\* arrival of a response and the completion of a request, in either
\* outcome, leave the parameter record (with the edits made meanwhile) as it
\* is; a success writes the analysis result and nothing else but the
\* isAnalyzing flag.
C24_EditsDuringFlight ==
    /\ []((isAnalyzing /\ ~MicrotaskPending /\ InputAllowed) =>
            /\ ENABLED SliderRange
            /\ ENABLED SliderNumber
            /\ ENABLED SelectObject
            /\ ENABLED handleFileUpload
            /\ ENABLED Toggle
            /\ ENABLED toggleViewLock)
    /\ [][ /\ (inflight' # inflight /\ presses' = presses) =>
                (params' = params /\ pendingEffects' = pendingEffects)
           /\ (Len(inflight') < Len(inflight) /\ inflight[1].result.ok) =>
                /\ analysis' = inflight[1].result.value
                /\ error' = error
                /\ ~isAnalyzing' ]_vars

\* C24 witness: ipd was edited to 130 mm and a toggle flipped while a
\* request made for an ipd of 64 mm was in flight; its successful response
\* has arrived and the record still holds the edits.
C24_Witness ==
    /\ Len(inflight) = 1
    /\ inflight[1].stage = "settled"
    /\ inflight[1].result.ok
    /\ inflight[1].sent.ipd = 64
    /\ params.ipd = 130
    /\ params.wireframe
    /\ isAnalyzing

\* C25: a failed request leaves the stored analysis result as it is; the
\* stored result changes only when a request succeeds, to the result of that
\* request, with error left null; while error is non-null the panel shows
\* the error in place of the result, and once the error is dismissed the
\* panel shows the stored result again.
C25_FailureKeepsResult ==
    /\ [](error # NULL => (RightPanel.shows = "error" /\ RightPanel.message = error))
    /\ [][ /\ reports' # reports => analysis' = analysis
           /\ analysis' # analysis =>
                /\ Len(inflight') < Len(inflight)
                /\ inflight[1].result.ok
                /\ analysis' = inflight[1].result.value
                /\ error = NULL
                /\ error' = NULL
           /\ (error # NULL /\ error' = NULL /\ presses' = presses) =>
                /\ analysis' = analysis
                /\ analysis.present =>
                       (RightPanel'.shows = "result" /\ RightPanel'.result = analysis) ]_vars

\* C25 witness: a first request stored a result, a second one failed: the
\* error is on display and the stored result is still the first one.
C25_Witness ==
    /\ presses = 2
    /\ calls = 2
    /\ reports = 1
    /\ error # NULL
    /\ analysis.present
    /\ analysis.content = 1
    /\ RightPanel.shows = "error"

\* C26: in every reachable state objectType = 'custom' implies that
\* customModelUrl is non-null: a step that selects 'custom' or stores a URL
\* is an upload, which stores a non-null URL and the objectType 'custom'
\* together and changes nothing else; a step that selects a built-in object
\* changes objectType only and leaves customModelUrl as it is.
C26_CustomHasUrl ==
    /\ [](params.objectType = "custom" => params.customModelUrl # NULL)
    /\ [][ /\ ((params'.objectType = "custom" /\ params.objectType # "custom")
                \/ params'.customModelUrl # params.customModelUrl) =>
                /\ params'.customModelUrl # NULL
                /\ params'.objectType = "custom"
                /\ params' = [params EXCEPT
                       !.customModelUrl = params'.customModelUrl,
                       !.objectType = "custom"]
           /\ (params'.objectType # params.objectType /\
                   params'.objectType # "custom") =>
                /\ params'.objectType \in {"torus", "cube", "sphere", "dna"}
                /\ params' = [params EXCEPT !.objectType = params'.objectType]
         ]_vars

\* C26 witness: a model was uploaded and then the cube was selected: the
\* objectType is 'cube' and the URL of the upload is still stored.
C26_Witness ==
    /\ edits = 2
    /\ params.objectType = "cube"
    /\ params.customModelUrl = "blob:1"

=============================================================================
